---- MODULE Spec2Model ----
(***************************************************************************)
(* StructNova Africa (src/app.py): the /calculator request handler and the *)
(* one-way slab design calculation calculate_slab_design it calls.         *)
(*                                                                         *)
(* The calculation is floating-point arithmetic; the model carries it out  *)
(* in binary64 with round-to-nearest-even at every operation the source    *)
(* performs, so that comparisons, floors, ceilings and decimal roundings   *)
(* come out as they do in CPython.                                         *)
(***************************************************************************)
EXTENDS Integers, Sequences, FiniteSets, TLC

(* Natural numbers of any size: little-endian sequences of limbs in 0..B-1
   with no leading zero limb (TLC integers are 32 bits wide). *)
B == 2^15

RECURSIVE Trim(_)
Trim(a) == IF a = <<>> THEN a
           ELSE IF a[Len(a)] = 0 THEN Trim(SubSeq(a, 1, Len(a) - 1)) ELSE a

RECURSIVE FromInt(_)
FromInt(n) == IF n = 0 THEN <<>> ELSE <<n % B>> \o FromInt(n \div B)

RECURSIVE ToInt(_)
ToInt(a) == IF a = <<>> THEN 0 ELSE Head(a) + B * ToInt(Tail(a))

RECURSIVE BCmpAt(_, _, _)
BCmpAt(a, b, i) == IF i = 0 THEN 0
                   ELSE IF a[i] # b[i] THEN (IF a[i] < b[i] THEN -1 ELSE 1)
                   ELSE BCmpAt(a, b, i - 1)

BCmp(a, b) == IF Len(a) # Len(b) THEN (IF Len(a) < Len(b) THEN -1 ELSE 1)
              ELSE BCmpAt(a, b, Len(a))

Limb(a, i) == IF i <= Len(a) THEN a[i] ELSE 0

RECURSIVE BAddAt(_, _, _, _)
BAddAt(a, b, i, c) ==
    IF i > Len(a) /\ i > Len(b) THEN (IF c = 0 THEN <<>> ELSE <<c>>)
    ELSE LET x == Limb(a, i) + Limb(b, i) + c
         IN  <<x % B>> \o BAddAt(a, b, i + 1, x \div B)

BAdd(a, b) == BAddAt(a, b, 1, 0)

RECURSIVE BSubAt(_, _, _, _)
BSubAt(a, b, i, c) ==
    IF i > Len(a) THEN <<>>
    ELSE LET x == a[i] - Limb(b, i) - c
         IN  <<x % B>> \o BSubAt(a, b, i + 1, IF x < 0 THEN 1 ELSE 0)

BSub(a, b) == Trim(BSubAt(a, b, 1, 0))

RECURSIVE BMulSmallAt(_, _, _, _)
BMulSmallAt(a, k, i, c) ==
    IF i > Len(a) THEN (IF c = 0 THEN <<>> ELSE <<c>>)
    ELSE LET x == a[i] * k + c
         IN  <<x % B>> \o BMulSmallAt(a, k, i + 1, x \div B)

BMulSmall(a, k) == IF k = 0 THEN <<>> ELSE BMulSmallAt(a, k, 1, 0)

RECURSIVE BMulAt(_, _, _)
BMulAt(a, b, j) ==
    IF j > Len(b) THEN <<>>
    ELSE LET rest == BMulAt(a, b, j + 1)
         IN  BAdd(BMulSmall(a, b[j]), IF rest = <<>> THEN <<>> ELSE <<0>> \o rest)

BMul(a, b) == IF a = <<>> THEN <<>> ELSE BMulAt(a, b, 1)

\* floor(a / k), a mod k for 0 < k < B, most significant limb first
RECURSIVE BDivSmallAt(_, _, _, _, _)
BDivSmallAt(a, k, i, r, q) ==
    IF i = 0 THEN <<q, r>>
    ELSE LET x == r * B + a[i]
             q2 == <<x \div k>> \o q
         IN  IF Len(q2) > 0 THEN BDivSmallAt(a, k, i - 1, x % k, q2) ELSE <<>>

BDivSmall(a, k) == LET d == BDivSmallAt(a, k, Len(a), 0, <<>>) IN <<Trim(d[1]), d[2]>>

BShl(a, n) == IF a = <<>> THEN <<>>
              ELSE [i \in 1..(n \div 15) |-> 0] \o BMulSmall(a, 2^(n % 15))

BShr(a, n) == IF n \div 15 >= Len(a) THEN <<>>
              ELSE BDivSmall(SubSeq(a, n \div 15 + 1, Len(a)), 2^(n % 15))[1]

RECURSIVE IntBits(_)
IntBits(n) == IF n = 0 THEN 0 ELSE 1 + IntBits(n \div 2)

BitLen(a) == IF a = <<>> THEN 0 ELSE 15 * (Len(a) - 1) + IntBits(a[Len(a)])


\* a mod 2^n = 0
BLowZero(a, n) == /\ \A i \in 1..(n \div 15) : Limb(a, i) = 0
                  /\ Limb(a, n \div 15 + 1) % 2^(n % 15) = 0

BBit(a, n) == (Limb(a, n \div 15 + 1) \div 2^(n % 15)) % 2

Max2(x, y) == IF x > y THEN x ELSE y
Min2(x, y) == IF x < y THEN x ELSE y

\* one quotient limb: r < b * B, b's top limb >= B / 2
RECURSIVE QFix(_, _, _)
QFix(r, b, q) == IF BCmp(BMulSmall(b, q), r) > 0 THEN QFix(r, b, q - 1) ELSE q

QDigit(r, b) ==
    IF BCmp(r, b) < 0 THEN 0
    ELSE QFix(r, b, Min2(B - 1, (Limb(r, Len(b) + 1) * B + r[Len(b)]) \div b[Len(b)]))

\* long division, most significant limb of a first: q collects the quotient
\* limbs, r is the running remainder
RECURSIVE BDivAt(_, _, _, _, _)
BDivCarry(a, b, i, r, q) ==
    IF Len(r) >= 0 /\ Len(q) > 0 THEN BDivAt(a, b, i - 1, r, q) ELSE <<>>

BDivLimb(a, b, i, q, x) ==
    LET d == QDigit(x, b)
    IN  BDivCarry(a, b, i, BSub(x, BMulSmall(b, d)), <<d>> \o q)

BDivAt(a, b, i, r, q) ==
    IF i = 0 THEN <<q, r>> ELSE BDivLimb(a, b, i, q, Trim(<<a[i]>> \o r))

BDivOut(qr) == <<Trim(qr[1]), qr[2] # <<>>>>

\* <<floor(a / b), remainder # 0>> for b # 0
BDivMod(a, b) ==
    LET s == 15 - IntBits(b[Len(b)])
        n == BShl(a, s)
    IN  BDivOut(BDivAt(n, BShl(b, s), Len(n), <<>>, <<>>))

\* 2 * quotient, plus one when the division left a remainder
Sticky(qr) == BAdd(BShl(qr[1], 1), IF qr[2] THEN <<1>> ELSE <<>>)


(* Python floats are IEEE-754 binary64.  A number is (-1)^s * m * 2^e with
   2^52 <= m < 2^53 (m a bignum), or a signed zero (m = <<>>), or nan. *)
NaN == [k |-> "nan", s |-> 0, m |-> <<>>, e |-> 0]
Zero(s) == [k |-> "num", s |-> s, m |-> <<>>, e |-> 0]

IsNaN(a) == a.k = "nan"
IsZero(a) == a.k = "num" /\ a.m = <<>>

Num(s, m, e) == [k |-> "num", s |-> s, m |-> m, e |-> e]

PackNorm(s, r, e) == IF BitLen(r) = 54 THEN Num(s, BShr(r, 1), e + 1) ELSE Num(s, r, e)

PackAt(s, M, e, sh) ==
    IF sh <= 0 THEN Num(s, BShl(M, -sh), e + sh)
    ELSE PackNorm(s,
                  IF BBit(M, sh - 1) = 1 /\ (~BLowZero(M, sh - 1) \/ BBit(M, sh) = 1)
                  THEN BAdd(BShr(M, sh), <<1>>) ELSE BShr(M, sh),
                  e + sh)

\* round-to-nearest-even of M * 2^e (M # 0) to 53 significant bits
Pack(s, M, e) == PackAt(s, M, e, BitLen(M) - 53)

FFromInt(n) == IF n = 0 THEN Zero(0)
               ELSE IF n < 0 THEN Pack(1, FromInt(-n), 0) ELSE Pack(0, FromInt(n), 0)

FNeg(a) == IF IsNaN(a) THEN a ELSE [a EXCEPT !.s = 1 - a.s]

FMul(a, b) ==
    IF IsNaN(a) \/ IsNaN(b) THEN NaN
    ELSE IF IsZero(a) \/ IsZero(b) THEN Zero((a.s + b.s) % 2)
    ELSE Pack((a.s + b.s) % 2, BMul(a.m, b.m), a.e + b.e)

\* b is not zero (Python raises ZeroDivisionError before dividing)
FDiv(a, b) ==
    IF IsNaN(a) \/ IsNaN(b) THEN NaN
    ELSE IF IsZero(a) THEN Zero((a.s + b.s) % 2)
    ELSE Pack((a.s + b.s) % 2, Sticky(BDivMod(BShl(a.m, 56), b.m)), a.e - b.e - 57)

\* sign and magnitude of (-1)^sa * A + (-1)^sb * C, where c compares A with C
SignedSum(sa, sb, A, C, c) ==
    IF sa = sb THEN <<sa, BAdd(A, C)>>
    ELSE IF c = 0 THEN <<0, <<>>>>
    ELSE IF c > 0 THEN <<sa, BSub(A, C)>>
    ELSE <<sb, BSub(C, A)>>

FAddAligned(sa, sb, A, C, e) ==
    LET sm == SignedSum(sa, sb, A, C, BCmp(A, C))
    IN  IF sm[2] = <<>> THEN Zero(0) ELSE Pack(sm[1], sm[2], e)

FAdd(a, b) ==
    IF IsNaN(a) \/ IsNaN(b) THEN NaN
    ELSE IF IsZero(a) THEN (IF IsZero(b) THEN Zero(IF a.s = 1 /\ b.s = 1 THEN 1 ELSE 0) ELSE b)
    ELSE IF IsZero(b) THEN a
    ELSE IF a.e - b.e > 60 THEN a
    ELSE IF b.e - a.e > 60 THEN b
    ELSE FAddAligned(a.s, b.s, BShl(a.m, a.e - Min2(a.e, b.e)),
                     BShl(b.m, b.e - Min2(a.e, b.e)), Min2(a.e, b.e))

FSub(a, b) == FAdd(a, FNeg(b))

\* floor(sqrt(M)) by Newton's iteration from above
RECURSIVE ISqrtFrom(_, _)
ISqrtFrom(M, x) ==
    LET y == BShr(BAdd(x, BDivMod(M, x)[1]), 1)
    IN  IF BCmp(y, x) >= 0 THEN x ELSE ISqrtFrom(M, y)

\* 2 * r, plus one when r falls short of the root
FSqrtPack(M, r, e) == Pack(0, Sticky(<<r, BMul(r, r) # M>>), e)

\* a > 0 (math.sqrt raises ValueError on a negative argument before this)
FSqrt(a) ==
    IF IsNaN(a) THEN NaN
    ELSE IF IsZero(a) THEN a
    ELSE LET k == 58 + (a.e % 2)
             M == BShl(a.m, k)
         IN  FSqrtPack(M, ISqrtFrom(M, BShl(<<1>>, 56)), (a.e - k) \div 2 - 1)

\* -1, 0, 1 for numbers (no nan)
FCmp(a, b) ==
    LET sa == IF IsZero(a) THEN 0 ELSE IF a.s = 1 THEN -1 ELSE 1
        sb == IF IsZero(b) THEN 0 ELSE IF b.s = 1 THEN -1 ELSE 1
        mag == IF a.e # b.e THEN (IF a.e > b.e THEN 1 ELSE -1) ELSE BCmp(a.m, b.m)
    IN  IF sa # sb THEN (IF sa < sb THEN -1 ELSE 1)
        ELSE IF sa = 0 THEN 0
        ELSE sa * mag

FLt(a, b) == ~IsNaN(a) /\ ~IsNaN(b) /\ FCmp(a, b) < 0
FLe(a, b) == ~IsNaN(a) /\ ~IsNaN(b) /\ FCmp(a, b) <= 0
FGt(a, b) == FLt(b, a)
FGe(a, b) == FLe(b, a)

\* integer part of |a| and whether a is an integer
FIntPart(a) == IF IsZero(a) THEN <<0, TRUE>>
               ELSE IF a.e >= 0 THEN <<ToInt(BShl(a.m, a.e)), TRUE>>
               ELSE <<ToInt(BShr(a.m, -a.e)), BLowZero(a.m, -a.e)>>

\* math.floor, math.ceil, int of a number (no nan)
FFloor(a) == LET p == FIntPart(a)
             IN  IF a.s = 0 THEN p[1] ELSE IF p[2] THEN -p[1] ELSE -(p[1] + 1)
FCeil(a) == LET p == FIntPart(a)
            IN  IF a.s = 1 THEN -p[1] ELSE IF p[2] THEN p[1] ELSE p[1] + 1
FTrunc(a) == IF a.s = 1 THEN -FIntPart(a)[1] ELSE FIntPart(a)[1]

FromRatioAt(N, D, sh) == Pack(0, Sticky(BDivMod(BShl(N, sh), D)), -sh - 1)

\* N / D (N, D bignums, D # 0) rounded to the nearest double
FromRatio(N, D) ==
    IF N = <<>> THEN Zero(0)
    ELSE FromRatioAt(N, D, Max2(0, BitLen(D) + 57 - BitLen(N)))

RECURSIVE Pow10(_)
Pow10(k) == IF k = 0 THEN <<1>> ELSE BMulSmall(Pow10(k - 1), 10)

PyRoundOut(s, r, n) == IF r = <<>> THEN Zero(s) ELSE [FromRatio(r, Pow10(n)) EXCEPT !.s = s]

\* N * 2^e to the nearest integer, halves to the even one
PyRoundAt(s, N, e, n) ==
    IF e >= 0 THEN PyRoundOut(s, BShl(N, e), n)
    ELSE PyRoundOut(s,
                    IF BBit(N, -e - 1) = 1 /\ (~BLowZero(N, -e - 1) \/ BBit(N, -e) = 1)
                    THEN BAdd(BShr(N, -e), <<1>>) ELSE BShr(N, -e),
                    n)

\* round(a, n): a's exact value rounded half-to-even to n decimals, as a double
PyRound(a, n) ==
    IF IsNaN(a) \/ IsZero(a) THEN a ELSE PyRoundAt(a.s, BMul(a.m, Pow10(n)), a.e, n)

\* floor(cbrt(M)) by Newton's iteration from above
RECURSIVE ICbrtFrom(_, _)
ICbrtFrom(M, x) ==
    LET y == BDivSmall(BAdd(BShl(x, 1), BDivMod(M, BMul(x, x))[1]), 3)[1]
    IN  IF BCmp(y, x) >= 0 THEN x ELSE ICbrtFrom(M, y)

\* r is the floor of a root, of 55 or 56 bits: the doubles that enclose the
\* root, which is r * 2^e when exact and lies between r and r + 1 otherwise
RootNeighbours(r, e, exact, sh) ==
    {Num(0, BShr(r, sh), e + sh),
     IF exact /\ BLowZero(r, sh) THEN Num(0, BShr(r, sh), e + sh)
     ELSE PackNorm(0, BAdd(BShr(r, sh), <<1>>), e + sh)}

PowThirdOf(M, r, e) == RootNeighbours(r, e, BMul(BMul(r, r), r) = M, BitLen(r) - 53)

\* a ** (1/3) for a > 0.  The exponent is the double nearest to 1/3 and the
\* power is libm's pow, accurate to within one unit in the last place: the
\* result is one of the two doubles that enclose the cube root.
PowThird(a) ==
    LET k == 112 + ((a.e - 112) % 3)
        M == BShl(a.m, k)
    IN  PowThirdOf(M, ICbrtFrom(M, BShl(<<1>>, 56)), (a.e - k) \div 3)

PowQuarterOf(M, r, e) ==
    RootNeighbours(r, e, BMul(BMul(r, r), BMul(r, r)) = M, BitLen(r) - 53)

\* a ** (1/4) for a > 0, likewise one of the two doubles that enclose the
\* fourth root
PowQuarter(a) ==
    LET k == 168 + ((a.e - 168) % 4)
        M == BShl(a.m, k)
    IN  PowQuarterOf(M, ISqrtFrom(ISqrtFrom(M, BShl(<<1>>, 112)), BShl(<<1>>, 56)),
                     (a.e - k) \div 4)

\* min(a, b) and max(a, b) of Python: the first argument unless the second
\* compares strictly smaller (larger); a nan never compares
FMin(a, b) == IF FLt(b, a) THEN b ELSE a
FMax(a, b) == IF FGt(b, a) THEN b ELSE a

\* a numeric literal of the source: n / 10^k
Lit(n, k) == FromRatio(FromInt(n), Pow10(k))

(***************************************************************************)
(* Form fields.  A numeric field is the text the browser sent: a decimal   *)
(* numeral (sign, digits in groups of four, number of decimals), "nan",    *)
(* text that is no number, or absent.                                      *)
(***************************************************************************)
Numeral(digits, dec) == [t |-> "num", neg |-> FALSE, digits |-> digits, dec |-> dec]
Negative(digits, dec) == [t |-> "num", neg |-> TRUE, digits |-> digits, dec |-> dec]
NanText == [t |-> "nan"]
JunkText == [t |-> "junk"]
Missing == [t |-> "missing"]

RECURSIVE BigNatAt(_, _, _)
BigNatAt(digits, i, acc) ==
    IF i > Len(digits) THEN acc
    ELSE BigNatAt(digits, i + 1, BAdd(BMulSmall(acc, 10000), FromInt(digits[i])))

\* float(text): the nearest double to the decimal numeral; float("nan") is nan
ParseFloat(text) ==
    IF text.t = "nan" THEN NaN
    ELSE [FromRatio(BigNatAt(text.digits, 1, <<>>), Pow10(text.dec))
          EXCEPT !.s = IF text.neg THEN 1 ELSE 0]

\* float(request.form.get(name, default))
FormFloat(text, default) == IF text.t = "missing" THEN FFromInt(default) ELSE ParseFloat(text)

Parses(text) == text.t # "junk"

\* a text field as sent
Text(v) == [t |-> "text", v |-> v]

\* request.form.get(name, default) for the two grade selectors
FormGet(text, default) == IF text.t = "missing" THEN default ELSE text.v

(***************************************************************************)
(* Material tables                                                         *)
(***************************************************************************)
CONCRETE_GRADES ==
    [C20 |-> [fck |-> 20, fctm |-> Lit(22, 1)],
     C25 |-> [fck |-> 25, fctm |-> Lit(26, 1)],
     C30 |-> [fck |-> 30, fctm |-> Lit(29, 1)],
     C35 |-> [fck |-> 35, fctm |-> Lit(32, 1)],
     C40 |-> [fck |-> 40, fctm |-> Lit(35, 1)]]

STEEL_GRADES ==
    ("460" :> [fy |-> 460, Es |-> 200000]) @@ ("500" :> [fy |-> 500, Es |-> 200000])

\* in the dictionary's iteration order
BAR_AREAS ==
    << [bar_size |-> "Y8",  bar_area |-> Lit(503, 1)],
       [bar_size |-> "Y10", bar_area |-> Lit(785, 1)],
       [bar_size |-> "Y12", bar_area |-> Lit(1131, 1)],
       [bar_size |-> "Y16", bar_area |-> Lit(2011, 1)],
       [bar_size |-> "Y20", bar_area |-> Lit(3142, 1)],
       [bar_size |-> "Y25", bar_area |-> Lit(4909, 1)] >>

(***************************************************************************)
(* calculate_slab_design, step by step                                     *)
(***************************************************************************)
assumed_bar_dia == 12
K_prime == Lit(156, 3)
basic_ratio == 26

\* Step 1: 1.4G + 1.6Q
UltimateLoadLess(dead_load, live_load) ==
    FSub(FMul(Lit(14, 1), dead_load), FMul(Lit(16, 1), live_load))

UltimateLoad(dead_load, live_load) ==
    FAdd(FMul(Lit(14, 1), dead_load), FMul(Lit(16, 1), live_load))

\* Step 2: w L^2 / 8
BendingMoment(ultimate_load, span) ==
    FDiv(FMul(ultimate_load, FMul(span, span)), FFromInt(8))

\* Step 3
EstimatedDepth(span) == FDiv(FMul(span, FFromInt(1000)), FFromInt(25))

SlabDepthRounded(estimated_depth) == FFloor(FAdd(FDiv(estimated_depth, FFromInt(25)), Lit(5, 1))) * 25

SlabDepth(estimated_depth) == FCeil(FDiv(estimated_depth, FFromInt(25))) * 25

\* Step 4
EffectiveDepthToBarFace(slab_depth, cover) == FSub(FFromInt(slab_depth), cover)

EffectiveDepth(slab_depth, cover) ==
    FSub(FSub(FFromInt(slab_depth), cover), FDiv(FFromInt(assumed_bar_dia), FFromInt(2)))

\* Step 5: b * d ** 2 * fck with b = 1000
KDenominator(d, fck) == FMul(FMul(FFromInt(1000), FMul(d, d)), FFromInt(fck))

KValue(moment, denominator) == FDiv(FMul(moment, Lit(1000000, 0)), denominator)

\* Step 6
CompressionNeeded(K) == FGt(K, K_prime)

\* Step 7
SqrtBranchAlways(K) == TRUE

SqrtBranch(K) == FLe(K, K_prime)

SqrtArg(K) == FSub(Lit(25, 2), FDiv(K, Lit(1134, 3)))

\* sqrt_arg is 0.25 - K / 1.134, not negative
LeverArmSqrt(sqrt_arg, d) ==
    FMin(FMul(d, FAdd(Lit(5, 1), FSqrt(sqrt_arg))), FMul(Lit(95, 2), d))

LeverArmFallback(d) == FMul(Lit(95, 2), d)

\* Step 8
AsRequiredDenominator(fy, z) == FMul(FMul(Lit(87, 2), FFromInt(fy)), z)

AsRequired(moment, denominator) == FDiv(FMul(moment, Lit(1000000, 0)), denominator)

\* Step 9
AsMin(slab_depth) == FMul(FMul(Lit(13, 4), FFromInt(1000)), FFromInt(slab_depth))

AsProvided(As_required, As_min) == FMax(As_required, As_min)

\* Step 10
Spacing(bar_area, As_provided) == FDiv(FMul(bar_area, FFromInt(1000)), As_provided)

SpacingUnclamped(spacing) == FFloor(FDiv(spacing, FFromInt(25))) * 25

SpacingPractical(spacing) == Max2(75, Min2(FFloor(FDiv(spacing, FFromInt(25))) * 25, 300))

AsActual(bar_area, spacing_practical) ==
    FDiv(FMul(bar_area, FFromInt(1000)), FFromInt(spacing_practical))

\* lines 148-154
OptionAt(bar, spacing_practical, As_required) ==
    LET As_actual == AsActual(bar.bar_area, spacing_practical)
    IN  [bar_size |-> bar.bar_size,
         bar_area |-> bar.bar_area,
         spacing |-> spacing_practical,
         As_actual |-> PyRound(As_actual, 1),
         adequate |-> FGe(As_actual, As_required)]

Option(bar, As_provided, As_required) ==
    OptionAt(bar, SpacingPractical(Spacing(bar.bar_area, As_provided)), As_required)

RECURSIVE OptionsFrom(_, _, _)
OptionsFrom(i, As_provided, As_required) ==
    IF i > Len(BAR_AREAS) THEN <<>>
    ELSE (IF FGt(As_provided, Zero(0))
          THEN <<Option(BAR_AREAS[i], As_provided, As_required)>>
          ELSE <<>>) \o OptionsFrom(i + 1, As_provided, As_required)

ReinforcementOptions(As_provided, As_required) == OptionsFrom(1, As_provided, As_required)

RECURSIVE Filter(_, _)
Filter(opts, i) ==
    IF i > Len(opts) THEN <<>>
    ELSE (IF opts[i].adequate THEN <<opts[i]>> ELSE <<>>) \o Filter(opts, i + 1)

AdequateOptions(opts) == Filter(opts, 1)

\* min(opts, key = bar_area): the first of the least
RECURSIVE MinByBarArea(_, _, _)
MinByBarArea(opts, i, best) ==
    IF i > Len(opts) THEN best
    ELSE MinByBarArea(opts, i + 1, IF FLt(opts[i].bar_area, best.bar_area) THEN opts[i] ELSE best)

\* max(opts, key = As_actual): the first of the greatest
RECURSIVE MaxByAsActual(_, _, _)
MaxByAsActual(opts, i, best) ==
    IF i > Len(opts) THEN best
    ELSE MaxByAsActual(opts, i + 1, IF FGt(opts[i].As_actual, best.As_actual) THEN opts[i] ELSE best)

SelectLastAdequate(opts) ==
    LET adequate_options == AdequateOptions(opts)
    IN  IF adequate_options # <<>>
        THEN adequate_options[Len(adequate_options)]
        ELSE MaxByAsActual(opts, 2, opts[1])

\* opts is not empty when no option is adequate (max() of an empty list raises)
SelectReinforcement(opts) ==
    LET adequate_options == AdequateOptions(opts)
    IN  IF adequate_options # <<>>
        THEN MinByBarArea(adequate_options, 2, adequate_options[1])
        ELSE MaxByAsActual(opts, 2, opts[1])

Suggestion(selected) ==
    selected.bar_size \o " @ " \o ToString(selected.spacing) \o "mm c/c"

\* Step 11
ModificationFactor(As_provided, As_required, fy, moment, d) ==
    IF FGt(As_provided, Zero(0)) /\ FGt(As_required, Zero(0))
    THEN LET fs == FDiv(FMul(FFromInt(2 * fy), As_required), FMul(FFromInt(3), As_provided))
             md == FDiv(FMul(moment, Lit(1000000, 0)), FMul(FFromInt(1000), FMul(d, d)))
             mf == FAdd(Lit(55, 2),
                        FDiv(FSub(FFromInt(477), fs),
                             FMul(FFromInt(120), FAdd(Lit(9, 1), md))))
         IN  FMax(Lit(9, 1), FMin(Lit(2, 0), mf))
    ELSE Lit(1, 0)

AllowableSpanDepth(mf) == FMul(FFromInt(basic_ratio), mf)

ActualSpanDepth(span, slab_depth) == FDiv(FMul(span, FFromInt(1000)), FFromInt(slab_depth))

\* Step 12
ShearForce(ultimate_load, span) == FDiv(FMul(ultimate_load, span), FFromInt(2))

Rho(As_provided, d) == FDiv(FMul(FFromInt(100), As_provided), FMul(FFromInt(1000), d))

DepthRatio(d) == FDiv(FFromInt(400), d)

\* a negative float to a fractional power is a complex number in Python
IsComplex(rho, depth_ratio) == FLt(rho, Zero(0)) \/ FLt(depth_ratio, Zero(0))

\* cube_root is rho ** (1/3), fourth_root is (400 / d) ** (1/4)
ConcreteShearStrength(cube_root, fourth_root, fck) ==
    FMin(FDiv(FMul(FMul(Lit(79, 2), cube_root), fourth_root), Lit(125, 2)),
         FMul(Lit(8, 1), FSqrt(FFromInt(fck))))

ShearOk(V, d, vc) == FLe(FDiv(FMul(V, FFromInt(1000)), FMul(FFromInt(1000), d)), vc)

(***************************************************************************)
(* The /calculator request handler.  One request is served at a time; pc   *)
(* is the handler's position, frame the local variables of the running     *)
(* calculate_slab_design call and res the dictionary it is filling.        *)
(***************************************************************************)
VARIABLES pc, method, form, args, errors, results, flashed, invoked,
          frame, res, raised, response, mono

vars == <<pc, method, form, args, errors, results, flashed, invoked,
          frame, res, raised, response, mono>>

handler == <<pc, method, form, args, errors, results, flashed, invoked,
             frame, res, raised, response>>

\* dictionaries: d[k] = v
Put(d, k, v) == (k :> v) @@ d
EmptyDict == <<>>
None == <<>>
NoException == [type |-> "none", msg |-> ""]

\* what a browser may send in each field
SpanTexts == {Numeral(<<5>>, 1), Numeral(<<4>>, 0), Numeral(<<5>>, 0), Numeral(<<12>>, 0),
              Numeral(<<0>>, 0), Numeral(<<13>>, 0), NanText, JunkText}
DeadLoadTexts == {Numeral(<<3>>, 0), Numeral(<<2, 9708, 9035, 9999, 9996>>, 15),
                  Numeral(<<50>>, 0), Negative(<<1>>, 0), NanText}
LiveLoadTexts == {Numeral(<<2>>, 0), Numeral(<<20>>, 0), Numeral(<<21>>, 0)}
ConcreteTexts == {Text("C25"), Text("C20"), Text("C99"), Missing}
SteelTexts == {Text("460"), Text("999")}
CoverTexts == {Numeral(<<19>>, 0), Numeral(<<25>>, 0), Numeral(<<75>>, 0),
               Numeral(<<10>>, 0), Missing}

Forms == [span : SpanTexts, dead_load : DeadLoadTexts, live_load : LiveLoadTexts,
          concrete_grade : ConcreteTexts, steel_grade : SteelTexts, cover : CoverTexts]

NoForm == [span |-> Missing, dead_load |-> Missing, live_load |-> Missing,
           concrete_grade |-> Missing, steel_grade |-> Missing, cover |-> Missing]

InitHandler ==
    /\ pc = "idle"
    /\ method = "GET"
    /\ form = NoForm
    /\ args = EmptyDict
    /\ errors = <<>>
    /\ results = None
    /\ flashed = <<>>
    /\ invoked = FALSE
    /\ frame = EmptyDict
    /\ res = EmptyDict
    /\ raised = NoException
    /\ response = None

Init == InitHandler /\ mono = <<>>

\* an exception leaves the try block: the call's frame and dictionary are dropped
Raise(type, msg) ==
    /\ raised' = [type |-> type, msg |-> msg]
    /\ frame' = EmptyDict
    /\ res' = EmptyDict
    /\ pc' = "except"

\* a request arrives; line 229
Request(m, f) ==
    /\ pc = "idle"
    /\ method' = m
    /\ form' = f
    /\ pc' = IF m = "POST" THEN "parse" ELSE "render"
    /\ args' = EmptyDict
    /\ errors' = <<>>
    /\ results' = None
    /\ flashed' = <<>>
    /\ invoked' = FALSE
    /\ frame' = EmptyDict
    /\ res' = EmptyDict
    /\ raised' = NoException
    /\ response' = None
    /\ UNCHANGED mono

\* lines 234-239
ParseForm ==
    /\ pc = "parse"
    /\ IF Parses(form.span) /\ Parses(form.dead_load) /\ Parses(form.live_load)
          /\ Parses(form.cover)
       THEN /\ args' = [span |-> FormFloat(form.span, 0),
                        dead_load |-> FormFloat(form.dead_load, 0),
                        live_load |-> FormFloat(form.live_load, 0),
                        concrete_grade |-> FormGet(form.concrete_grade, "C25"),
                        steel_grade |-> FormGet(form.steel_grade, "460"),
                        cover |-> FormFloat(form.cover, 25)]
            /\ pc' = "validate"
            /\ UNCHANGED <<raised, frame, res>>
       ELSE /\ Raise("ValueError", "could not convert string to float")
            /\ UNCHANGED args
    /\ UNCHANGED <<method, form, errors, results, flashed, invoked, response, mono>>

SpanError(span) == FLe(span, Zero(0)) \/ FGt(span, FFromInt(12))
DeadLoadError(dead_load) == FLt(dead_load, Zero(0)) \/ FGt(dead_load, FFromInt(50))
LiveLoadError(live_load) == FLt(live_load, Zero(0)) \/ FGt(live_load, FFromInt(20))
CoverError(cover) == FLt(cover, FFromInt(15)) \/ FGt(cover, FFromInt(75))

\* lines 242-250; the superscript two of the source's "kN/m2" messages is
\* written as the digit 2
ValidationErrors(a) ==
    (IF SpanError(a.span) THEN <<"Span must be between 0.1m and 12m">> ELSE <<>>)
    \o (IF DeadLoadError(a.dead_load) THEN <<"Dead load must be between 0 and 50 kN/m2">> ELSE <<>>)
    \o (IF LiveLoadError(a.live_load) THEN <<"Live load must be between 0 and 20 kN/m2">> ELSE <<>>)
    \o (IF CoverError(a.cover) THEN <<"Cover must be between 15mm and 75mm">> ELSE <<>>)

\* lines 242-250
Validate ==
    /\ pc = "validate"
    /\ errors' = ValidationErrors(args)
    /\ pc' = "checked"
    /\ UNCHANGED <<method, form, args, results, flashed, invoked, frame, res, raised, response, mono>>

\* lines 252-254
FlashErrors ==
    /\ pc = "checked"
    /\ errors # <<>>
    /\ flashed' = flashed \o [i \in 1..Len(errors) |-> <<errors[i], "error">>]
    /\ pc' = "render"
    /\ UNCHANGED <<method, form, args, errors, results, invoked, frame, res, raised, response, mono>>

\* line 256: the call; lines 56-64: the inputs are echoed into the result
Call ==
    /\ pc = "checked"
    /\ errors = <<>>
    /\ invoked' = TRUE
    /\ frame' = args
    /\ res' = args
    /\ pc' = "lookup"
    /\ UNCHANGED <<method, form, args, errors, results, flashed, raised, response, mono>>

\* what every step of the calculation leaves alone
Outside == <<method, form, args, errors, results, flashed, invoked, response, mono>>

\* table[key], or nothing when the key is absent (KeyError)
GradeLookupDefault(table, key) ==
    IF key \in DOMAIN table THEN <<table[key]>> ELSE <<table[CHOOSE k \in DOMAIN table : TRUE]>>

GradeLookup(table, key) == IF key \in DOMAIN table THEN <<table[key]>> ELSE <<>>

LookupDo(concrete, steel) ==
    IF concrete = <<>> THEN Raise("KeyError", "'" \o frame.concrete_grade \o "'")
    ELSE IF steel = <<>> THEN Raise("KeyError", "'" \o frame.steel_grade \o "'")
    ELSE /\ frame' = Put(Put(frame, "fck", concrete[1].fck), "fy", steel[1].fy)
         /\ res' = Put(Put(res, "fck", frame'.fck), "fy", frame'.fy)
         /\ pc' = "step1"
         /\ UNCHANGED raised

\* lines 67-70
Lookup ==
    /\ pc = "lookup"
    /\ LookupDo(GradeLookup(CONCRETE_GRADES, frame.concrete_grade),
                GradeLookup(STEEL_GRADES, frame.steel_grade))
    /\ UNCHANGED Outside

\* lines 73-76
Step1 ==
    /\ pc = "step1"
    /\ frame' = Put(frame, "ultimate_load", UltimateLoad(frame.dead_load, frame.live_load))
    /\ res' = Put(Put(Put(res, "load_factor_dead", Lit(14, 1)),
                      "load_factor_live", Lit(16, 1)),
                  "ultimate_load", PyRound(frame'.ultimate_load, 2))
    /\ pc' = "step2"
    /\ UNCHANGED <<raised, Outside>>

\* lines 80-82
Step2 ==
    /\ pc = "step2"
    /\ frame' = Put(frame, "moment", BendingMoment(frame.ultimate_load, frame.span))
    /\ res' = Put(Put(res, "moment", PyRound(frame'.moment, 2)),
                  "moment_knm", PyRound(frame'.moment, 2))
    /\ pc' = "step3"
    /\ UNCHANGED <<raised, Outside>>

\* math.ceil of a nan raises
Step3Do(estimated_depth) ==
    IF IsNaN(estimated_depth)
    THEN Raise("ValueError", "cannot convert float NaN to integer")
    ELSE /\ frame' = Put(Put(frame, "estimated_depth", estimated_depth),
                         "slab_depth", SlabDepth(estimated_depth))
         /\ res' = Put(res, "slab_depth", frame'.slab_depth)
         /\ pc' = "step4"
         /\ UNCHANGED raised

\* lines 86-89
Step3 ==
    /\ pc = "step3"
    /\ Step3Do(EstimatedDepth(frame.span))
    /\ UNCHANGED Outside

\* int() of a nan raises
Step4Do(effective_depth) ==
    IF IsNaN(effective_depth)
    THEN Raise("ValueError", "cannot convert float NaN to integer")
    ELSE /\ frame' = Put(Put(frame, "assumed_bar_dia", assumed_bar_dia),
                         "effective_depth", effective_depth)
         /\ res' = Put(Put(res, "effective_depth", FTrunc(effective_depth)),
                       "assumed_bar_dia", assumed_bar_dia)
         /\ pc' = "step5"
         /\ UNCHANGED raised

\* lines 93-96
Step4 ==
    /\ pc = "step4"
    /\ Step4Do(EffectiveDepth(frame.slab_depth, frame.cover))
    /\ UNCHANGED Outside

\* a zero divisor raises
Step5Do(d, denominator) ==
    IF IsZero(denominator)
    THEN Raise("ZeroDivisionError", "float division by zero")
    ELSE /\ frame' = Put(Put(Put(frame, "b", 1000), "d", d),
                         "K", KValue(frame.moment, denominator))
         /\ res' = Put(res, "K", PyRound(frame'.K, 4))
         /\ pc' = "step6"
         /\ UNCHANGED raised

\* lines 100-103
Step5 ==
    /\ pc = "step5"
    /\ Step5Do(frame.effective_depth, KDenominator(frame.effective_depth, frame.fck))
    /\ UNCHANGED Outside

\* lines 106-108
Step6 ==
    /\ pc = "step6"
    /\ frame' = Put(frame, "K_prime", K_prime)
    /\ res' = Put(Put(res, "K_prime", frame'.K_prime),
                  "compression_reinforcement_needed", CompressionNeeded(frame.K))
    /\ pc' = "step7"
    /\ UNCHANGED <<raised, Outside>>

\* line 117
Step7Store(z) ==
    /\ frame' = Put(frame, "z", z)
    /\ res' = Put(res, "lever_arm", PyRound(frame'.z, 1))
    /\ pc' = "step8"
    /\ UNCHANGED raised

\* lines 113-114; math.sqrt of a negative number raises
Step7Sqrt(sqrt_arg) ==
    IF FLt(sqrt_arg, Zero(0))
    THEN Raise("ValueError", "math domain error")
    ELSE Step7Store(LeverArmSqrt(sqrt_arg, frame.d))

\* lines 112-117
Step7 ==
    /\ pc = "step7"
    /\ IF SqrtBranch(frame.K)
       THEN Step7Sqrt(SqrtArg(frame.K))
       ELSE Step7Store(LeverArmFallback(frame.d))
    /\ UNCHANGED Outside

Step8Do(denominator) ==
    IF IsZero(denominator)
    THEN Raise("ZeroDivisionError", "float division by zero")
    ELSE /\ frame' = Put(frame, "As_required", AsRequired(frame.moment, denominator))
         /\ res' = Put(res, "As_required", PyRound(frame'.As_required, 1))
         /\ pc' = "step9"
         /\ UNCHANGED raised

\* lines 121-122
Step8 ==
    /\ pc = "step8"
    /\ Step8Do(AsRequiredDenominator(frame.fy, frame.z))
    /\ UNCHANGED Outside

Step9Do(As_min) ==
    /\ frame' = Put(Put(frame, "As_min", As_min),
                    "As_provided", AsProvided(frame.As_required, As_min))
    /\ res' = Put(Put(res, "As_min", PyRound(As_min, 1)),
                  "As_provided", PyRound(frame'.As_provided, 1))

\* lines 127-132
Step9 ==
    /\ pc = "step9"
    /\ Step9Do(AsMin(frame.slab_depth))
    /\ pc' = "step10"
    /\ UNCHANGED <<raised, Outside>>

\* lines 163-165
Step10Store(reinforcement_options, selected) ==
    /\ frame' = Put(Put(frame, "reinforcement_options", reinforcement_options),
                    "selected", selected)
    /\ res' = Put(Put(Put(res, "reinforcement_options", reinforcement_options),
                      "selected_reinforcement", selected),
                  "reinforcement_suggestion", Suggestion(selected))
    /\ pc' = "step11"
    /\ UNCHANGED raised

\* lines 157-161; max() of an empty list raises
Step10Do(reinforcement_options) ==
    IF reinforcement_options = <<>>
    THEN Raise("ValueError", "max() arg is an empty sequence")
    ELSE Step10Store(reinforcement_options, SelectReinforcement(reinforcement_options))

\* lines 136-165
Step10 ==
    /\ pc = "step10"
    /\ Step10Do(ReinforcementOptions(frame.As_provided, frame.As_required))
    /\ UNCHANGED Outside

\* lines 179-186
Step11Do(mf) ==
    /\ frame' = Put(Put(Put(frame, "mf", mf),
                        "allowable_span_depth", AllowableSpanDepth(mf)),
                    "actual_span_depth", ActualSpanDepth(frame.span, frame.slab_depth))
    /\ res' = Put(Put(Put(Put(Put(res,
                  "basic_span_depth_ratio", basic_ratio),
                  "modification_factor", PyRound(mf, 2)),
                  "allowable_span_depth", PyRound(frame'.allowable_span_depth, 1)),
                  "actual_span_depth", PyRound(frame'.actual_span_depth, 1)),
                  "deflection_ok", FLe(frame'.actual_span_depth, frame'.allowable_span_depth))

\* lines 169-186
Step11 ==
    /\ pc = "step11"
    /\ Step11Do(ModificationFactor(frame.As_provided, frame.As_required, frame.fy,
                                   frame.moment, frame.d))
    /\ pc' = "step12"
    /\ UNCHANGED <<raised, Outside>>

\* lines 190-191, 202-203
Step12Store(vc) ==
    /\ frame' = Put(Put(frame, "V", ShearForce(frame.ultimate_load, frame.span)), "vc", vc)
    /\ res' = Put(Put(Put(res, "shear_force", PyRound(frame'.V, 2)),
                      "concrete_shear_strength", PyRound(vc, 2)),
                  "shear_ok", ShearOk(frame'.V, frame.d, vc))
    /\ pc' = "return"
    /\ UNCHANGED raised

\* lines 196-198; min() cannot order a complex number and a float
Step12Shear(rho, depth_ratio) ==
    IF IsComplex(rho, depth_ratio)
    THEN Raise("TypeError", "'<' not supported between instances of 'float' and 'complex'")
    ELSE \E cube_root \in PowThird(rho), fourth_root \in PowQuarter(depth_ratio) :
             Step12Store(ConcreteShearStrength(cube_root, fourth_root, frame.fck))

\* lines 190-203
Step12 ==
    /\ pc = "step12"
    /\ IF FGt(frame.As_provided, Zero(0))
       THEN Step12Shear(Rho(frame.As_provided, frame.d), DepthRatio(frame.d))
       ELSE Step12Store(Lit(4, 1))
    /\ UNCHANGED Outside

\* line 205, then lines 256-260 of the handler
Return ==
    /\ pc = "return"
    /\ results' = <<res>>
    /\ flashed' = Append(flashed, <<"Calculation completed successfully!", "success">>)
    /\ frame' = EmptyDict
    /\ res' = EmptyDict
    /\ pc' = "render"
    /\ UNCHANGED <<method, form, args, errors, invoked, raised, response, mono>>

\* lines 262-265
Except ==
    /\ pc = "except"
    /\ flashed' = Append(flashed,
                         IF raised.type = "ValueError"
                         THEN <<"Please enter valid numeric values", "error">>
                         ELSE <<"Calculation error: " \o raised.msg, "error">>)
    /\ pc' = "render"
    /\ UNCHANGED <<method, form, args, errors, results, invoked, frame, res, raised, mono,
                   response>>

\* lines 267-273
Render ==
    /\ pc = "render"
    /\ response' = <<[template |-> "calculator.html", results |-> results,
                      flashed |-> flashed]>>
    /\ pc' = "respond"
    /\ UNCHANGED <<method, form, args, errors, results, flashed, invoked, frame, res,
                   raised, mono>>

\* the page goes out and the handler's variables are gone
Respond ==
    /\ pc = "respond"
    /\ pc' = "idle"
    /\ method' = "GET"
    /\ form' = NoForm
    /\ args' = EmptyDict
    /\ errors' = <<>>
    /\ results' = None
    /\ flashed' = <<>>
    /\ invoked' = FALSE
    /\ frame' = EmptyDict
    /\ res' = EmptyDict
    /\ raised' = NoException
    /\ response' = None
    /\ UNCHANGED mono

Next ==
    \/ Request("GET", NoForm)
    \/ \E f \in Forms : Request("POST", f)
    \/ ParseForm
    \/ Validate
    \/ FlashErrors
    \/ Call
    \/ Lookup
    \/ Step1
    \/ Step2
    \/ Step3
    \/ Step4
    \/ Step5
    \/ Step6
    \/ Step7
    \/ Step8
    \/ Step9
    \/ Step10
    \/ Step11
    \/ Step12
    \/ Return
    \/ Except
    \/ Render
    \/ Respond

Spec == Init /\ [][Next]_vars

(***************************************************************************)
(* Steps 1 and 2 as a function of the inputs, applied to two inputs that   *)
(* differ in one of span, dead_load and live_load.                         *)
(***************************************************************************)
MonoSteps == 3

\* spans 0.5, 1.0, ... and loads 0, 0.5, ...
MonoInputs == [span : {Lit(5 * k, 1) : k \in 1..(MonoSteps + 1)},
               dead_load : {Lit(5 * k, 1) : k \in 0..MonoSteps},
               live_load : {Lit(5 * k, 1) : k \in 0..MonoSteps}]

\* a and b agree on every field but `field`, where b is larger
MonoPairs ==
    {p \in [a : MonoInputs, b : MonoInputs, field : {"span", "dead_load", "live_load"}] :
        /\ FLt(p.a[p.field], p.b[p.field])
        /\ \A f \in {"span", "dead_load", "live_load"} \ {p.field} : p.a[f] = p.b[f]}

InitMono ==
    /\ InitHandler
    /\ \E p \in MonoPairs : mono = [stage |-> "first", in |-> p, first |-> <<>>, second |-> <<>>]

\* lines 75-82
LoadAndMoment(in) ==
    LET ultimate_load == UltimateLoad(in.dead_load, in.live_load)
        moment == BendingMoment(ultimate_load, in.span)
    IN  [ultimate_load |-> ultimate_load, moment |-> moment,
         shown_ultimate_load |-> PyRound(ultimate_load, 2),
         shown_moment |-> PyRound(moment, 2)]

MonoFirst ==
    /\ mono.stage = "first"
    /\ mono' = [mono EXCEPT !.stage = "second", !.first = LoadAndMoment(mono.in.a)]
    /\ UNCHANGED handler

MonoSecond ==
    /\ mono.stage = "second"
    /\ mono' = [mono EXCEPT !.stage = "done", !.second = LoadAndMoment(mono.in.b)]
    /\ UNCHANGED handler

NextMono == MonoFirst \/ MonoSecond

SpecMono == InitMono /\ [][NextMono]_vars

(***************************************************************************)
(* Properties                                                              *)
(***************************************************************************)
Has(d, k) == k \in DOMAIN d

\* the handler has passed a value for results to the template
Rendered == pc = "respond"

\* the four range checks of the handler
InRange(a) ==
    /\ FGt(a.span, Zero(0)) /\ FLe(a.span, FFromInt(12))
    /\ FGe(a.dead_load, Zero(0)) /\ FLe(a.dead_load, FFromInt(50))
    /\ FGe(a.live_load, Zero(0)) /\ FLe(a.live_load, FFromInt(20))
    /\ FGe(a.cover, FFromInt(15)) /\ FLe(a.cover, FFromInt(75))

\* the call under way, or the one this request made, was given an unknown grade
UnknownGradeCall ==
    /\ invoked
    /\ \/ args.concrete_grade \notin DOMAIN CONCRETE_GRADES
       \/ args.steel_grade \notin DOMAIN STEEL_GRADES

\* C1: a call with a concrete or steel grade that is no key of the material
\* tables fails with KeyError at the lookup: no arithmetic step runs (no
\* local from the load combination onward is ever assigned), and the
\* handler returns and renders no result.
C1_UnknownGradeFails ==
    UnknownGradeCall =>
        /\ pc \in {"lookup", "except", "render", "respond"}
        /\ ~Has(frame, "ultimate_load")
        /\ ~Has(res, "ultimate_load")
        /\ results = None
        /\ pc # "lookup" => raised.type = "KeyError"
        /\ Rendered => response[1].results = None

C1_Witness ==
    /\ Rendered
    /\ UnknownGradeCall
    /\ InRange(args)
    /\ args.concrete_grade = "C99"
    /\ raised.type = "KeyError"
    /\ response[1].results = None

\* C2: when the effective depth is zero or negative the calculation stops
\* there: K is never computed from it.
C2_DegenerateGeometry ==
    (Has(frame, "effective_depth") /\ FLe(frame.effective_depth, Zero(0)))
        => ~Has(frame, "K")

ScenarioA ==
    /\ Rendered
    /\ invoked
    /\ args = [span |-> FFromInt(4), dead_load |-> FFromInt(3), live_load |-> FFromInt(2),
               concrete_grade |-> "C25", steel_grade |-> "460", cover |-> FFromInt(25)]

ScenarioAResult(K) ==
    /\ results # None
    /\ results[1].ultimate_load = Lit(74, 1)
    /\ results[1].moment = Lit(148, 1)
    /\ results[1].slab_depth = 175
    /\ results[1].effective_depth = 144
    /\ results[1].K = K
    /\ results[1].compression_reinforcement_needed = FALSE

\* C3: for span 4.0, dead load 3.0, live load 2.0, C25, 460 and cover 25 the
\* result has ultimate_load 7.4, moment 14.8, slab_depth 175,
\* effective_depth 144, K 0.0285 at four decimals and no compression
\* reinforcement.
C3_ScenarioA == ScenarioA => ScenarioAResult(Lit(285, 4))

C3_Witness == ScenarioA /\ results # None /\ response[1].results = results

\* C3 as first stated, with K 0.0147
C3_ScenarioA_Original == ScenarioA => ScenarioAResult(Lit(147, 4))

\* the steel area of a candidate before it is rounded for display
Unrounded(opt) == AsActual(opt.bar_area, opt.spacing)

Selected(opts, sel, i) ==
    /\ sel = opts[i]
    /\ IF \E j \in 1..Len(opts) : opts[j].adequate
       THEN /\ opts[i].adequate
            /\ \A j \in 1..Len(opts) :
                   opts[j].adequate =>
                       /\ FLe(opts[i].bar_area, opts[j].bar_area)
                       /\ j < i => FLt(opts[i].bar_area, opts[j].bar_area)
       ELSE \A j \in 1..Len(opts) :
                /\ FGe(Unrounded(opts[i]), Unrounded(opts[j]))
                /\ j < i => FGt(Unrounded(opts[i]), Unrounded(opts[j]))

\* C4: a candidate is adequate when its unrounded steel area is at least the
\* required area; if some candidate is adequate the selected one is the
\* adequate candidate of least bar area, the first such in table order;
\* otherwise it is the candidate of greatest unrounded steel area, the first
\* such in table order.
C4_Selection ==
    Has(frame, "selected") =>
        /\ \A j \in 1..Len(frame.reinforcement_options) :
               frame.reinforcement_options[j].adequate
                   <=> FGe(Unrounded(frame.reinforcement_options[j]), frame.As_required)
        /\ \E i \in 1..Len(frame.reinforcement_options) :
               Selected(frame.reinforcement_options, frame.selected, i)

\* some candidates are adequate and some are not, and the first adequate one
\* in table order is selected
C4_Witness ==
    /\ Has(frame, "selected")
    /\ ~frame.reinforcement_options[1].adequate
    /\ frame.reinforcement_options[6].adequate
    /\ frame.selected.adequate
    /\ frame.selected.bar_size # "Y25"

Floor25(opt, As_provided) == FFloor(FDiv(Spacing(opt.bar_area, As_provided), FFromInt(25))) * 25

\* C5: every candidate's spacing is a multiple of 25 in 75..300: the raw
\* spacing rounded down to a multiple of 25 when that lies in 75..300, 75
\* when it is below, 300 when it is above.
C5_PracticalSpacing ==
    Has(frame, "reinforcement_options") =>
        \A j \in 1..Len(frame.reinforcement_options) :
            /\ frame.reinforcement_options[j].spacing % 25 = 0
            /\ frame.reinforcement_options[j].spacing >= 75
            /\ frame.reinforcement_options[j].spacing <= 300
            /\ frame.reinforcement_options[j].spacing =
                   Max2(75, Min2(300, Floor25(frame.reinforcement_options[j], frame.As_provided)))

\* one list of candidates with a spacing raised to 75, one lowered to 300 and
\* one strictly between
C5_Witness ==
    /\ Has(frame, "reinforcement_options")
    /\ \E i, j, k \in 1..Len(frame.reinforcement_options) :
          /\ Floor25(frame.reinforcement_options[i], frame.As_provided) < 75
          /\ frame.reinforcement_options[i].spacing = 75
          /\ Floor25(frame.reinforcement_options[j], frame.As_provided) > 300
          /\ frame.reinforcement_options[j].spacing = 300
          /\ frame.reinforcement_options[k].spacing \in 100..275

C7_Threshold ==
    /\ pc = "return" =>
          /\ res.compression_reinforcement_needed <=> FGt(frame.K, Lit(156, 3))
          /\ ~res.compression_reinforcement_needed =>
                 frame.z = LeverArmSqrt(SqrtArg(frame.K), frame.d)
          /\ res.compression_reinforcement_needed => frame.z = LeverArmFallback(frame.d)
    /\ (pc = "step7" /\ SqrtBranch(frame.K)) => FGe(SqrtArg(frame.K), Zero(0))
    /\ raised.msg # "math domain error"

\* a result whose K lies between 0.156 and 0.2835, where the square-root
\* formula could still be evaluated but is not
C7_Witness ==
    /\ pc = "return"
    /\ res.compression_reinforcement_needed
    /\ FGt(SqrtArg(frame.K), Zero(0))
    /\ frame.z = LeverArmFallback(frame.d)

MonoDone == mono.stage = "done"

NeverSmaller ==
    /\ FGe(mono.second.ultimate_load, mono.first.ultimate_load)
    /\ FGe(mono.second.moment, mono.first.moment)
    /\ FGe(mono.second.shown_ultimate_load, mono.first.shown_ultimate_load)
    /\ FGe(mono.second.shown_moment, mono.first.shown_moment)

LargerMoment ==
    /\ FGt(mono.second.moment, mono.first.moment)
    /\ FGt(mono.second.shown_moment, mono.first.shown_moment)

LargerLoad ==
    /\ FGt(mono.second.ultimate_load, mono.first.ultimate_load)
    /\ FGt(mono.second.shown_ultimate_load, mono.first.shown_ultimate_load)

ErrorFlashed == \E i \in 1..Len(flashed) : flashed[i][2] = "error"

\* C9: calculate_slab_design is invoked only with 0 < span <= 12,
\* 0 <= dead_load <= 50, 0 <= live_load <= 20 and 15 <= cover <= 75; when a
\* check fails, a field is no number or the calculation raises, the template
\* gets results None and an error is flashed; otherwise it gets the complete
\* result of the one calculation.
C9_HandlerGuards ==
    /\ invoked => InRange(args)
    /\ (Rendered /\ method = "POST") =>
          IF errors # <<>> \/ raised.type # "none"
          THEN response[1].results = None /\ ErrorFlashed
          ELSE /\ response[1].results # None
               /\ Has(response[1].results[1], "shear_ok")

\* C10: a candidate is inadequate only if its spacing was raised to 75 by the
\* lower limit; when no candidate is adequate every spacing is 75 and the
\* suggestion is "Y25 @ 75mm c/c".
C10_InadequateOnlyAtLimit ==
    Has(frame, "selected") =>
        /\ \A j \in 1..Len(frame.reinforcement_options) :
               ~frame.reinforcement_options[j].adequate =>
                   /\ frame.reinforcement_options[j].spacing = 75
                   /\ FLt(Spacing(frame.reinforcement_options[j].bar_area, frame.As_provided),
                          FFromInt(75))
        /\ (\A j \in 1..Len(frame.reinforcement_options) :
                ~frame.reinforcement_options[j].adequate) =>
               /\ \A j \in 1..Len(frame.reinforcement_options) :
                      frame.reinforcement_options[j].spacing = 75
               /\ res.reinforcement_suggestion = "Y25 @ 75mm c/c"

====
